---- MODULE Spec2Model ----
(***************************************************************************)
(* Beam search decoding for Token-and-Duration Transducer models:          *)
(* BeamTDTInfer of nemo/collections/asr/parts/submodules/                  *)
(* tdt_beam_decoding.py.                                                   *)
(*                                                                         *)
(* Scores are log-probabilities.  They are kept as integers, in units of   *)
(* ln 2, so that score arithmetic (+) and score comparison are exact.      *)
(* The prediction network and the joint network are external: every call   *)
(* of the joint returns some vector of token log-probabilities and some    *)
(* vector of duration log-probabilities, drawn from LogpVals.              *)
(* Python lists are sequences (1-based); the values stored in them that    *)
(* are Python indices (token ids, duration indices) stay 0-based.          *)
(***************************************************************************)
EXTENDS Integers, Sequences, FiniteSets, TLC

VARIABLES
    cfg,                \* the decoder instance: the fields set by __init__
    pc,                 \* position in the decode call
    time_idx,           \* frame index of the for loop (t in mAES)
    hyps,               \* hypotheses of the current frame / of the current round
    kept_hyps,          \* hypotheses for future frames (the surviving set)
    n,                  \* mAES round index
    list_b,             \* mAES: blank emissions of the frame
    list_nb,            \* mAES: non-blank emissions not expanded further
    list_exp,           \* mAES: expansion list of the last round run
    last_round,         \* mAES: what the closing step of the last round was given
    duplication_check,  \* mAES: token sequences active at the start of the frame
    created,            \* hypotheses constructed by the last step, with their source
    nbest,              \* the list returned by the search
    encoded_lengths,    \* number of valid encoder frames of the utterance
    dd_in,              \* input list of a remove_duplicate_hypotheses call
    dd_out,             \* results of the call: <<f(in), f(f(in))>>
    sel_in,             \* arguments of a select_k_expansions_durations call
    sel_out,            \* its result: <<k_expansions>>
    ps_in,              \* arguments of a prefix_search call
    ps_out,             \* its result: <<hypotheses>>
    args,               \* arguments of __init__
    raised              \* the exception raised, "none" when there is none

vars == <<cfg, pc, time_idx, hyps, kept_hyps, n, list_b, list_nb, list_exp,
          last_round, duplication_check, created, nbest, encoded_lengths, dd_in, dd_out,
          sel_in, sel_out, ps_in, ps_out, args, raised>>

searchVars == <<cfg, pc, time_idx, hyps, kept_hyps, n, list_b, list_nb, list_exp,
                last_round, duplication_check, created, nbest, encoded_lengths>>

maesVars == <<n, list_b, list_nb, list_exp, last_round, duplication_check>>

\* What a step of a search leaves alone: the calls modelled on their own.
otherVars == <<dd_in, dd_out, sel_in, sel_out, ps_in, ps_out, args, raised>>

\* ---------------------------------------------------------------- bounds

\* Number of encoder frames of the utterance (encoded_lengths).
MaxT == 2
\* Log-probabilities returned by the joint are in -MaxLogp .. -1.
MaxLogp == 2
\* Length of the lists given to remove_duplicate_hypotheses on its own.
MaxLen == 3
\* Hypotheses of more than MaxTokens tokens (sentinel included) are not
\* expanded further: the runs in which the search expands one are cut there.
MaxTokens == 2
\* Largest beam_size and maes_num_steps given to __init__ on its own; the
\* vocabulary sizes go one further.
MaxBeam == 3

LogpVals == (0 - MaxLogp) .. (0 - 1)

\* ---------------------------------------------------------------- helpers

\* self.zero_duration_idx = None
NoneIdx == 0 - 1

Min(a, b) == IF a < b THEN a ELSE b

Range(s) == {s[i] : i \in 1..Len(s)}

\* Python's sorted(): stable, also with reverse=True.  before holds the pairs
\* of positions <<i, j>> for which s[i] sorts strictly before s[j].
StableSort(s, before) ==
    LET Pos(i) == 1 + Cardinality({j \in 1..Len(s) :
                        \/ <<j, i>> \in before
                        \/ (<<i, j>> \notin before /\ j < i)})
    IN  [p \in 1..Len(s) |-> s[CHOOSE i \in 1..Len(s) : Pos(i) = p]]

\* The elements of s at the positions in I, in the order of s.
AtPositions(s, I) ==
    LET Nth(p) == CHOOSE i \in I : Cardinality({j \in I : j < i}) = p - 1
    IN  [p \in 1..Cardinality(I) |-> s[Nth(p)]]

\* [x for x in s if x in keep]
Filter(s, keep) == AtPositions(s, {i \in 1..Len(s) : s[i] \in keep})

\* key=lambda x: x.score, with reverse=True and without.
ScoreDesc(s) == {<<i, j>> \in (1..Len(s)) \X (1..Len(s)) : s[i].score > s[j].score}
ScoreAsc(s) == {<<i, j>> \in (1..Len(s)) \X (1..Len(s)) : s[i].score < s[j].score}

\* Hypothesis(score=, y_sequence=, timestep=, last_frame=, dec_out=); dec_out is
\* kept as the number of cached prediction-network outputs.
Hypothesis(score, y_sequence, timestep, last_frame, dec_out) ==
    [score |-> score, y_sequence |-> y_sequence, timestep |-> timestep,
     last_frame |-> last_frame, dec_out |-> dec_out]

\* -------------------------------------------- remove_duplicate_hypotheses

SameKey(a, b) == a.y_sequence = b.y_sequence /\ a.last_frame = b.last_frame

\* Faulty variant: sorted by ascending score, so the lowest score is kept.
remove_duplicates_keep_lowest(hypotheses) ==
    LET sorted_hyps == StableSort(hypotheses, ScoreAsc(hypotheses))
    IN  AtPositions(sorted_hyps,
            {i \in 1..Len(sorted_hyps) :
                \A j \in 1..(i - 1) : ~SameKey(sorted_hyps[j], sorted_hyps[i])})

\* Faulty variant: the scan starts at the second sorted hypothesis.
remove_duplicates_skip_best(hypotheses) ==
    LET sorted_hyps == StableSort(hypotheses, ScoreDesc(hypotheses))
    IN  AtPositions(sorted_hyps,
            {i \in 2..Len(sorted_hyps) :
                \A j \in 2..(i - 1) : ~SameKey(sorted_hyps[j], sorted_hyps[i])})

\* Lines 647-657: sort by descending score, keep the first hypothesis of each key.
remove_duplicate_hypotheses(hypotheses) ==
    LET sorted_hyps == StableSort(hypotheses, ScoreDesc(hypotheses))
    IN  AtPositions(sorted_hyps,
            {i \in 1..Len(sorted_hyps) :
                \A j \in 1..(i - 1) : ~SameKey(sorted_hyps[j], sorted_hyps[i])})

\* The hypotheses handed to the duplicate suppression on its own: two token
\* sequences, two frames, two scores; timestep tells apart hypotheses of the
\* same key and score.
DedupHyps ==
    {Hypothesis(s, <<2>>, <<-1>>, lf, 0) : s \in {-1, -2}, lf \in {1, 2}}
    \cup {Hypothesis(s, <<2, 1>>, <<-1, ts>>, lf, 0) :
            s \in {-1, -2}, lf \in {1, 2}, ts \in {0, 1}}

DedupInputs == UNION {[1..k -> DedupHyps] : k \in 0..MaxLen}

\* ------------------------------------------------------------- __init__

\* self.zero_duration_idx: durations.index(0), None when 0 is not a duration.
zero_duration_idx(durations) ==
    IF \E i \in 1..Len(durations) : durations[i] = 0
    THEN (CHOOSE i \in 1..Len(durations) :
            /\ durations[i] = 0
            /\ \A j \in 1..(i - 1) : durations[j] # 0) - 1
    ELSE NoneIdx

\* self.min_non_zero_duration_idx: argmin over the durations that are not 0.
min_non_zero_duration_idx(durations) ==
    (CHOOSE i \in 1..Len(durations) :
        /\ durations[i] # 0
        /\ \A j \in 1..Len(durations) :
              durations[j] # 0 =>
                  \/ durations[i] < durations[j]
                  \/ (durations[i] = durations[j] /\ i <= j)) - 1

\* Lines 195-212: the search the instance dispatches to; a beam size of 1
\* selects greedy_search before the search type is looked at.
search_algorithm(beam_size, search_type) ==
    IF beam_size = 1 THEN "greedy_search"
    ELSE IF search_type = "default" THEN "default_beam_search"
    ELSE IF search_type = "maes" THEN "modified_adaptive_expansion_search"
    ELSE "none"

\* self.joint (line 173): the joint network is external.  classes is the number
\* of token log-probabilities it returns ([V + 1] in the comments of the code,
\* V where the blank is counted in the vocabulary), output is what is known of
\* the values it returns.
JointModel(classes, output) == [classes |-> classes, output |-> output]

\* The decoder instance __init__ leaves for a default search.
DefaultDecoder(beam_size, vocab_size, blank, durations) ==
    [search_type |-> "default", beam_size |-> beam_size, vocab_size |-> vocab_size,
     search_algorithm |-> search_algorithm(beam_size, "default"),
     joint |-> JointModel(vocab_size + 1, "peaked"),
     blank |-> blank, durations |-> durations, score_norm |-> TRUE,
     max_candidates |-> beam_size, tdt_duration_beam_size |-> 2,
     zero_duration_idx |-> zero_duration_idx(durations),
     min_non_zero_duration_idx |-> min_non_zero_duration_idx(durations),
     maes_num_steps |-> 2, maes_prefix_alpha |-> 1, maes_expansion_beta |-> 0,
     maes_expansion_gamma |-> 1]

\* The decoder instance __init__ leaves for mAES.
MaesDecoder(beam_size, vocab_size, blank, durations, num_steps, alpha, beta, gamma) ==
    [search_type |-> "maes", beam_size |-> beam_size, vocab_size |-> vocab_size,
     search_algorithm |-> search_algorithm(beam_size, "maes"),
     joint |-> JointModel(vocab_size + 1, "peaked"),
     blank |-> blank, durations |-> durations, score_norm |-> TRUE,
     max_candidates |-> beam_size + beta, tdt_duration_beam_size |-> 2,
     zero_duration_idx |-> zero_duration_idx(durations),
     min_non_zero_duration_idx |-> min_non_zero_duration_idx(durations),
     maes_num_steps |-> num_steps, maes_prefix_alpha |-> alpha,
     maes_expansion_beta |-> beta, maes_expansion_gamma |-> gamma]

\* Duration tables: distinct non-negative durations, at least one positive.
DurationTables == {<<0, 1>>, <<1, 2>>, <<1, 0>>}

\* The blank id is the last class (decoder_model.blank_idx = vocab_size) or 0.
DefaultDecoders ==
    {DefaultDecoder(beam_size, v, b, d) :
        beam_size \in {1, 2}, v \in {1, 2}, b \in {0, 1, 2}, d \in DurationTables}

\* mAES: vocab_size >= beam_size + maes_expansion_beta, maes_num_steps >= 2.
\* maes_expansion_gamma is in units of the scores, rounded down: 0 stands for
\* a margin below ln 2, such as 0.5, and 1 for a margin in [ln 2, 2 ln 2).
MaesDecoders ==
    {MaesDecoder(2, 2, b, d, 2, 1, 0, 0) : b \in {0, 2}, d \in DurationTables}
    \cup {MaesDecoder(2, 2, b, <<1, 2>>, 2, 1, 0, 1) : b \in {0, 2}}

Decoders ==
    {c \in DefaultDecoders \cup MaesDecoders : c.blank \in {0, c.vocab_size}}

\* The exception __init__ raises for the arguments a, "none" when it raises
\* none.  Python evaluates the checks in this order, and the first that fails
\* ends the construction.

\* Lines 190-193.
FeatureChecks(a) ==
    IF a.preserve_alignments THEN "ValueError: Alignment preservation"
    ELSE IF a.beam_size < 1 THEN "ValueError: Beam search size"
    ELSE "none"

\* Lines 195-212: the if / elif chain over beam_size and search_type.
SearchTypeChecks(a) ==
    IF a.beam_size = 1 THEN "none"
    ELSE IF a.search_type = "default" THEN "none"
    ELSE IF a.search_type = "tsd" THEN "NotImplementedError: tsd"
    ELSE IF a.search_type = "alsd" THEN "NotImplementedError: alsd"
    ELSE IF a.search_type = "nsc" THEN "NotImplementedError: nsc"
    ELSE IF a.search_type = "maes" THEN "none"
    ELSE "NotImplementedError: search type"

\* Faulty variant: the vocabulary is not compared with beam_size + beta.
MaesChecksNoBeta(a) ==
    IF a.search_type # "maes" THEN "none"
    ELSE IF a.maes_prefix_alpha < 0 THEN "ValueError: maes_prefix_alpha"
    ELSE IF a.maes_num_steps < 2 THEN "ValueError: maes_num_steps"
    ELSE "none"

\* Lines 214-232; the arguments are integers, which int() leaves as they are.
MaesChecks(a) ==
    IF a.search_type # "maes" THEN "none"
    ELSE IF a.maes_prefix_alpha < 0 THEN "ValueError: maes_prefix_alpha"
    ELSE IF a.vocab_size < a.beam_size + a.maes_expansion_beta
         THEN "ValueError: expansion_beta"
    ELSE IF a.maes_num_steps < 2 THEN "ValueError: maes_num_steps"
    ELSE "none"

\* Faulty variant: the search type is looked at only when KenLM is missing.
LMChecksKenlmFirst(a) ==
    IF ~a.ngram_lm_model THEN "none"
    ELSE IF a.kenlm_available THEN "none"
    ELSE IF a.search_type # "maes" THEN "ValueError: language model"
    ELSE "ImportError: KenLM"

\* Lines 240-250; ngram_lm_model stands for the truth value of the path.
LMChecks(a) ==
    IF ~a.ngram_lm_model THEN "none"
    ELSE IF a.search_type # "maes" THEN "ValueError: language model"
    ELSE IF ~a.kenlm_available THEN "ImportError: KenLM"
    ELSE "none"

FirstRaised(checks) ==
    IF \A i \in 1..Len(checks) : checks[i] = "none" THEN "none"
    ELSE checks[CHOOSE i \in 1..Len(checks) :
                    checks[i] # "none" /\ \A j \in 1..(i - 1) : checks[j] = "none"]

InitRaises(a) ==
    FirstRaised(<<FeatureChecks(a), SearchTypeChecks(a), MaesChecks(a), LMChecks(a)>>)

\* The instance __init__ leaves when it raises nothing.
Instance(a) ==
    IF a.search_type = "maes"
    THEN MaesDecoder(a.beam_size, a.vocab_size, a.blank, a.durations, a.maes_num_steps,
                     a.maes_prefix_alpha, a.maes_expansion_beta, a.maes_expansion_gamma)
    ELSE [DefaultDecoder(a.beam_size, a.vocab_size, a.blank, a.durations)
             EXCEPT !.search_type = a.search_type]

\* The arguments __init__ is given.
InitArgs ==
    [beam_size : 0..MaxBeam, search_type : {"default", "tsd", "alsd", "nsc", "maes", "other"},
     preserve_alignments : BOOLEAN, maes_num_steps : 1..MaxBeam,
     maes_prefix_alpha : {0 - 1, 0, 1}, maes_expansion_beta : {0, 1},
     maes_expansion_gamma : {1}, vocab_size : 2..(MaxBeam + 1), blank : {0},
     durations : {<<0, 1>>}, ngram_lm_model : BOOLEAN, kenlm_available : BOOLEAN]

\* The joint returns joint.classes token log-probabilities (indices
\* 0 .. classes - 1) followed by one log-probability per duration.
TokenIdx(c) == 0 .. (c.joint.classes - 1)
DurationIdx(c) == 0 .. (Len(c.durations) - 1)
Duration(c, duration_idx) == c.durations[duration_idx + 1]

\* The log-probability vectors a joint call returns over the index set I: one
\* entry is the likely one (-1), every other entry has the same lower value.
Peaked(I) ==
    {[i \in I |-> IF i = top THEN 0 - 1 ELSE low] :
        top \in I, low \in LogpVals \ {0 - 1}}

\* log_softmax of uniform logits over the index set I: every entry is
\* -ln |I|, in the integer units of the scores 0, -1 and -2 for 1, 2 and 3
\* entries.
Uniform(I) == {[i \in I |-> 0 - (Cardinality(I) - 1)]}

\* A log-probability that vanishes against 1 in float32 (24 binary digits):
\* log_softmax of logits with one dominant entry is exactly 0.0 at that entry.
Underflow == 0 - 25

\* The outputs of a joint with one dominant logit, at an index of tops.
Sharp(I, tops) == {[i \in I |-> IF i = top THEN 0 ELSE Underflow] : top \in tops}

JointLogp(c) ==
    IF c.joint.output = "uniform" THEN Uniform(TokenIdx(c))
    ELSE IF c.joint.output = "sharp" THEN Sharp(TokenIdx(c), TokenIdx(c) \ {c.blank})
    ELSE Peaked(TokenIdx(c))
JointDurationsLogp(c) ==
    IF c.joint.output = "uniform" THEN Uniform(DurationIdx(c))
    ELSE IF c.joint.output = "sharp" THEN Sharp(DurationIdx(c), DurationIdx(c))
    ELSE Peaked(DurationIdx(c))

\* torch.topk(k) of the values v at the indices I: the indices of k largest
\* values, largest first; the order among equal values is not specified.
TopK(v, I, k) ==
    {s \in [1..k -> I] :
        /\ \A p, q \in 1..k : p < q => s[p] # s[q] /\ v[s[p]] >= v[s[q]]
        /\ \A i \in I : (\A p \in 1..k : s[p] # i) => \A p \in 1..k : v[i] <= v[s[p]]}

\* ------------------------------------------------------ default_beam_search

beam(c) == Min(c.beam_size, c.vocab_size)
beam_k(c) == Min(beam(c), c.vocab_size - 1)
durations_beam_k(c) == Min(beam(c), Len(c.durations))

start_hyp(c, dec_out) == Hypothesis(0, <<c.blank>>, <<-1>>, 0, dec_out)

\* Faulty variant: the last hypothesis of maximum score.
MaxIdxLast(s) ==
    CHOOSE i \in 1..Len(s) :
        /\ \A j \in 1..Len(s) : s[j].score <= s[i].score
        /\ \A j \in (i + 1)..Len(s) : s[j].score < s[i].score

\* max(hyps, key=lambda x: x.score): the first hypothesis of maximum score.
MaxIdx(s) ==
    CHOOSE i \in 1..Len(s) :
        /\ \A j \in 1..Len(s) : s[j].score <= s[i].score
        /\ \A j \in 1..(i - 1) : s[j].score < s[i].score

RemoveAt(s, i) == AtPositions(s, (1..Len(s)) \ {i})

\* torch.cartesian_prod(durations_logp_topks, logp_topks).sum(dim=-1): entry
\* d * beam_k + k is the sum of the d-th top duration and the k-th top token.
sum_logp(c, logp, logp_topk_idxs, durations_logp, durations_logp_topk_idxs) ==
    [i \in 0 .. (durations_beam_k(c) * beam_k(c) - 1) |->
        durations_logp[durations_logp_topk_idxs[(i \div beam_k(c)) + 1]]
            + logp[logp_topk_idxs[(i % beam_k(c)) + 1]]]

\* Faulty variant: the token is appended without its timestep.
NonBlankHypNoTimestep(max_hyp, score, token, t, duration) ==
    Hypothesis(score, Append(max_hyp.y_sequence, token), max_hyp.timestep,
               max_hyp.last_frame + duration, max_hyp.dec_out)

\* Faulty variant: the timestep of the token is the duration, not the frame it ends at.
NonBlankHypRelativeTimestep(max_hyp, score, token, t, duration) ==
    Hypothesis(score, Append(max_hyp.y_sequence, token),
               Append(max_hyp.timestep, duration),
               max_hyp.last_frame + duration, max_hyp.dec_out)

\* Faulty variant: last_frame is not advanced by the duration of the token.
NonBlankHypLastFrameKept(max_hyp, score, token, t, duration) ==
    Hypothesis(score, Append(max_hyp.y_sequence, token),
               Append(max_hyp.timestep, t + duration),
               max_hyp.last_frame, max_hyp.dec_out)

\* The child of max_hyp for a token and a duration (lines 398-409).
NonBlankHyp(max_hyp, score, token, t, duration) ==
    Hypothesis(score, Append(max_hyp.y_sequence, token),
               Append(max_hyp.timestep, t + duration),
               max_hyp.last_frame + duration, max_hyp.dec_out)

\* The non-blank children of max_hyp, in the order of the loop (lines 393-405).
NonBlankChildren(c, t, max_hyp, logp, logp_topk_idxs, durations_logp, durations_logp_topk_idxs, sum_logp_topk_idxs) ==
    [p \in 1..Len(sum_logp_topk_idxs) |->
        LET sum_logp_topk_idx == sum_logp_topk_idxs[p]
            token_idx == sum_logp_topk_idx % beam_k(c)
            duration_idx == sum_logp_topk_idx \div beam_k(c)
            duration == Duration(c, durations_logp_topk_idxs[duration_idx + 1])
            sums == sum_logp(c, logp, logp_topk_idxs, durations_logp,
                             durations_logp_topk_idxs)
        IN  [duration |-> duration,
             duration_idx |-> durations_logp_topk_idxs[duration_idx + 1],
             hyp |-> NonBlankHyp(max_hyp, max_hyp.score + sums[sum_logp_topk_idx],
                        logp_topk_idxs[token_idx + 1], t, duration)]]

\* Faulty variant: the zero duration is not taken away from the blank.
BlankDurationIdxsZeroKept(c, durations_logp_topk_idxs) ==
    durations_logp_topk_idxs

\* Faulty variant: a zero duration that is alone in the top-k is not replaced.
BlankDurationIdxsNoSwitch(c, durations_logp_topk_idxs) ==
    Filter(durations_logp_topk_idxs,
        {duration_idx \in Range(durations_logp_topk_idxs) :
            \/ duration_idx # c.zero_duration_idx
            \/ Len(durations_logp_topk_idxs) = 1})

\* The duration indices the blank is emitted with (lines 415-421).
BlankDurationIdxs(c, durations_logp_topk_idxs) ==
    LET Sub(duration_idx) ==
            IF duration_idx = c.zero_duration_idx
            THEN c.min_non_zero_duration_idx
            ELSE duration_idx
        kept == Filter(durations_logp_topk_idxs,
                    {duration_idx \in Range(durations_logp_topk_idxs) :
                        \/ duration_idx # c.zero_duration_idx
                        \/ Len(durations_logp_topk_idxs) = 1})
    IN  [q \in 1..Len(kept) |-> Sub(kept[q])]

\* The blank children of max_hyp (lines 415-431).
BlankChildren(c, max_hyp, logp, durations_logp, durations_logp_topk_idxs) ==
    LET idxs == BlankDurationIdxs(c, durations_logp_topk_idxs)
    IN  [q \in 1..Len(idxs) |->
            [duration |-> Duration(c, idxs[q]),
             duration_idx |-> idxs[q],
             hyp |-> Hypothesis(
                        max_hyp.score + logp[c.blank] + durations_logp[idxs[q]],
                        max_hyp.y_sequence, max_hyp.timestep,
                        max_hyp.last_frame + Duration(c, idxs[q]),
                        max_hyp.dec_out)]]

Hyps(children) == [p \in 1..Len(children) |-> children[p].hyp]

\* What a step records of the hypotheses it constructs: the source, the
\* duration index used, and what it was selected from (the duration top-k of
\* the joint call; in mAES the duration index of the expansion).
Created(kind, t, source, children, selected) ==
    {[kind |-> kind, frame |-> t, source |-> source, hyp |-> children[p].hyp,
      duration_idx |-> children[p].duration_idx, selected |-> selected] :
        p \in 1..Len(children)}

\* ------------------------------------------------------------ prefix_search

\* is_prefix(x, pref) of rnnt_utils: pref is a strict prefix of x.
is_prefix(x, pref) ==
    /\ Len(pref) < Len(x)
    /\ \A i \in 1..Len(pref) : pref[i] = x[i]

\* Faulty variant: the score computed through the prefix replaces the score.
logaddexp_replace(a, b) == b

\* np.logaddexp(a, b) = max(a, b) + log(1 + exp(-|a - b|)), rounded to the
\* unit of the scores (ln 2): log2(1 + 2^-d) is 1, 0.58, 0.32, ... for d = 0, 1, 2.
logaddexp(a, b) ==
    (IF a > b THEN a ELSE b) + (IF a - b \in {-1, 0, 1} THEN 1 ELSE 0)

\* The score of hypotheses[curr_idx] after the prefixes at positions j .. end
\* have been folded in (lines 684-716); delta[curr_idx][j] is the sum the joint
\* gives for the tokens that follow the prefix.
RECURSIVE PrefixFold(_, _, _, _, _, _)
PrefixFold(hypotheses, curr_idx, j, score, delta, prefix_alpha) ==
    IF j > Len(hypotheses) THEN score
    ELSE LET curr_hyp == hypotheses[curr_idx]
             pref_hyp == hypotheses[j]
             hit == /\ is_prefix(curr_hyp.y_sequence, pref_hyp.y_sequence)
                    /\ Len(curr_hyp.y_sequence) - Len(pref_hyp.y_sequence) <= prefix_alpha
         IN  PrefixFold(hypotheses, curr_idx, j + 1,
                        IF hit THEN logaddexp(score, pref_hyp.score + delta[curr_idx][j])
                               ELSE score,
                        delta, prefix_alpha)

prefix_search(hypotheses, delta, prefix_alpha) ==
    [i \in 1..Len(hypotheses) |->
        [hypotheses[i] EXCEPT !.score =
            PrefixFold(hypotheses, i, i + 1, hypotheses[i].score, delta, prefix_alpha)]]

\* The sums logp[token] + duration_logp[zero_duration_idx] over gap tokens.
RECURSIVE DeltaSums(_)
DeltaSums(gap) ==
    IF gap <= 0 THEN {0}
    ELSE {a + b + r : a \in LogpVals, b \in LogpVals, r \in DeltaSums(gap - 1)}

\* All sequences whose i-th element is drawn from sets[i].
RECURSIVE SeqProduct(_)
SeqProduct(sets) ==
    IF sets = <<>> THEN {<<>>}
    ELSE {<<x>> \o rest : x \in Head(sets), rest \in SeqProduct(Tail(sets))}

\* What the joint can give for every pair (current, prefix) of the list.
PrefixDeltas(hypotheses, prefix_alpha) ==
    SeqProduct([i \in 1..Len(hypotheses) |->
        SeqProduct([j \in 1..Len(hypotheses) |->
            IF /\ i < j
               /\ is_prefix(hypotheses[i].y_sequence, hypotheses[j].y_sequence)
               /\ Len(hypotheses[i].y_sequence) - Len(hypotheses[j].y_sequence)
                    <= prefix_alpha
            THEN DeltaSums(Len(hypotheses[i].y_sequence)
                             - Len(hypotheses[j].y_sequence))
            ELSE {0}])])

LenDesc(s) ==
    {<<i, j>> \in (1..Len(s)) \X (1..Len(s)) :
        Len(s[i].y_sequence) > Len(s[j].y_sequence)}

\* ------------------------------------------- select_k_expansions_durations

\* Lines 772-775: the candidates of one hypothesis, tokens outer, durations inner.
Candidates(hyp, logp, topk_idxs, duration_logp, topk_duration_idxs) ==
    [p \in 1..(Len(topk_idxs) * Len(topk_duration_idxs)) |->
        LET idx == topk_idxs[((p - 1) \div Len(topk_duration_idxs)) + 1]
            duration_idx == topk_duration_idxs[((p - 1) % Len(topk_duration_idxs)) + 1]
        IN  [k |-> idx, duration_idx |-> duration_idx,
             score |-> hyp.score + logp[idx] + duration_logp[duration_idx]]]

\* Faulty variant: nothing is pruned.
select_k_no_prune(hyp_i, gamma) == StableSort(hyp_i, ScoreAsc(hyp_i))

\* Faulty variant: the kept candidates are sorted by descending score.
select_k_descending(hyp_i, gamma) ==
    LET best_score == hyp_i[MaxIdx(hyp_i)].score
        kept == Filter(hyp_i, {x \in Range(hyp_i) : best_score - gamma <= x.score})
    IN  StableSort(kept, ScoreDesc(kept))

\* Lines 778-782: prune by value, sorted by ascending score.
select_k_expansions_durations(hyp_i, gamma) ==
    LET best_score == hyp_i[MaxIdx(hyp_i)].score
        kept == Filter(hyp_i, {x \in Range(hyp_i) : best_score - gamma <= x.score})
    IN  StableSort(kept, ScoreAsc(kept))

\* Lines 766-785: the whole call, one list of expansions per hypothesis.  The
\* rows of a hold, per hypothesis, the log-probabilities and their top-k indices.
SelectCall(a) ==
    [i \in 1..Len(a.hyps) |->
        select_k_expansions_durations(
            Candidates(a.hyps[i], a.rows[i].logp, a.rows[i].topk_idxs,
                       a.rows[i].duration_logp, a.rows[i].topk_duration_idxs),
            a.gamma)]

\* The expansion lists the joint can give for one hypothesis (lines 522-529).
ExpansionsOf(c, hyp) ==
    UNION {UNION {
        {select_k_expansions_durations(
             Candidates(hyp, logp, topk_idxs, duration_logp, topk_duration_idxs),
             c.maes_expansion_gamma) :
            topk_idxs \in TopK(logp, TokenIdx(c), c.max_candidates),
            topk_duration_idxs \in
                TopK(duration_logp, DurationIdx(c), c.tdt_duration_beam_size)} :
        duration_logp \in JointDurationsLogp(c)} : logp \in JointLogp(c)}

RECURSIVE Flatten(_)
Flatten(seqs) == IF seqs = <<>> THEN <<>> ELSE Head(seqs) \o Flatten(Tail(seqs))

\* ------------------------------------- modified_adaptive_expansion_search

\* Python truth value of self.zero_duration_idx: None and 0 are false.
Truthy(idx) == idx # NoneIdx /\ idx # 0

\* Line 536: the condition under which the duration of a blank is replaced.
BlankSubstitutes(c, k, duration_idx) ==
    k = c.blank /\ Truthy(c.zero_duration_idx) /\ duration_idx = c.zero_duration_idx

\* Lines 533-571: the hypothesis built for one expansion and the list it goes to.
Expansion(c, t, hyp, exp, dup_check) ==
    LET duration_idx == IF BlankSubstitutes(c, exp.k, exp.duration_idx)
                        THEN c.min_non_zero_duration_idx
                        ELSE exp.duration_idx
        duration == Duration(c, duration_idx)
        new_hyp == Hypothesis(exp.score, hyp.y_sequence, hyp.timestep,
                              hyp.last_frame + duration, hyp.dec_out)
        y_sequence == Append(hyp.y_sequence, exp.k)
    IN  IF exp.k = c.blank
        THEN [list |-> "b", source |-> hyp, duration_idx |-> duration_idx,
              selected |-> <<exp.duration_idx>>, hyp |-> new_hyp]
        ELSE [list |-> IF duration = 0 /\ Append(y_sequence, exp.k) \notin dup_check
                       THEN "exp" ELSE "nb",
              source |-> hyp, duration_idx |-> duration_idx,
              selected |-> <<exp.duration_idx>>,
              hyp |-> [new_hyp EXCEPT !.y_sequence = y_sequence,
                                      !.timestep = Append(hyp.timestep, t)]]

\* Lines 532-533: every expansion of every hypothesis, in the order of the loops.
Expansions(c, t, hs, k_expansions, dup_check) ==
    Flatten([i \in 1..Len(hs) |->
                [e \in 1..Len(k_expansions[i]) |->
                    Expansion(c, t, hs[i], k_expansions[i][e], dup_check)]])

\* Lines 583-585: hyp.dec_out.append(beam_decoder_output[i]).
AppendDecOut(hs) == [i \in 1..Len(hs) |-> [hs[i] EXCEPT !.dec_out = @ + 1]]

\* max over the durations (line 609): an index of a largest value.
ArgMax(v) == {i \in DOMAIN v : \A j \in DOMAIN v : v[j] <= v[i]}

\* Lines 612-617: the hypothesis of the expansion list after the last round.
LastRound(c, hyp) ==
    UNION {UNION {
        {LET duration_idx == IF beam_max_duration_idx = c.zero_duration_idx
                             THEN c.min_non_zero_duration_idx
                             ELSE beam_max_duration_idx
         IN  [duration_idx |-> duration_idx,
              selected |-> <<beam_max_duration_idx>>,
              logp |-> logp, duration_logp |-> duration_logp,
              hyp |-> [hyp EXCEPT
                          !.score = @ + logp[c.blank] + duration_logp[duration_idx],
                          !.last_frame = @ + Duration(c, duration_idx)]] :
            beam_max_duration_idx \in ArgMax(duration_logp)} :
        duration_logp \in JointDurationsLogp(c)} : logp \in JointLogp(c)}

\* Faulty variant: the candidates are sorted and not cut to the beam.
TopBeamAll(c, hs) ==
    LET kept == remove_duplicate_hypotheses(hs)
    IN  StableSort(kept, ScoreDesc(kept))

\* Lines 590-594 and 618-621: sorted(remove_duplicate_hypotheses(...),
\* key=score, reverse=True)[:beam].
TopBeam(c, hs) ==
    LET kept == remove_duplicate_hypotheses(hs)
        sorted == StableSort(kept, ScoreDesc(kept))
    IN  SubSeq(sorted, 1, Min(beam(c), Len(sorted)))

\* sort_nbest: by score / len(y_sequence) when score_norm, else by score,
\* descending.  a.score / |a| > b.score / |b| is compared without division.
NormScoreDesc(s) ==
    {<<i, j>> \in (1..Len(s)) \X (1..Len(s)) :
        s[i].score * Len(s[j].y_sequence) > s[j].score * Len(s[i].y_sequence)}

\* Faulty variant: score_norm is not looked at.
sort_nbest_raw(c, hs) == StableSort(hs, ScoreDesc(hs))

sort_nbest(c, hs) ==
    IF c.score_norm THEN StableSort(hs, NormScoreDesc(hs))
    ELSE StableSort(hs, ScoreDesc(hs))

\* No call of remove_duplicate_hypotheses, of select_k_expansions_durations
\* or of __init__ on its own is under way.
NoDedup == dd_in = <<>> /\ dd_out = <<>>
NoSelect == sel_in = <<>> /\ sel_out = <<>>
NoInit == args = NoneIdx /\ raised = "none"
NoPrefix == ps_in = <<>> /\ ps_out = <<>>

\* Line 304: __call__ hands the utterance to self.search_algorithm; lines
\* 360-363 and 474-493: the start hypothesis, before the first frame.
InitSearch(c, T) ==
    /\ cfg = c
    /\ encoded_lengths = T
    /\ pc = IF c.search_algorithm = "greedy_search" THEN "greedy" ELSE "frame"
    /\ time_idx = 0
    /\ hyps = <<>>
    /\ kept_hyps = IF c.search_algorithm = "greedy_search" THEN <<>>
                   ELSE <<start_hyp(c, IF c.search_type = "maes" THEN 1 ELSE 0)>>
    /\ n = 0
    /\ list_b = <<>>
    /\ list_nb = <<>>
    /\ list_exp = <<>>
    /\ last_round = <<>>
    /\ duplication_check = {}
    /\ created = {}
    /\ nbest = <<>>

Init ==
    /\ \E c \in Decoders, T \in 0..MaxT : InitSearch(c, T)
    /\ NoDedup
    /\ NoSelect
    /\ NoInit
    /\ NoPrefix

\* Lines 323-336: greedy_search, the search of an instance of beam size 1,
\* raises NotImplementedError, which __call__ (lines 252-322) does not catch.
GreedySearch ==
    /\ pc = "greedy"
    /\ pc' = "raised"
    /\ raised' = "NotImplementedError: greedy search"
    /\ UNCHANGED <<cfg, encoded_lengths, time_idx, hyps, kept_hyps, nbest, created, maesVars,
                   dd_in, dd_out, sel_in, sel_out, ps_in, ps_out, args>>

\* Lines 364-368: the next frame; the hypotheses are split into those of the
\* current frame and those of future frames.
DefaultFrame ==
    /\ cfg.search_type = "default"
    /\ pc = "frame"
    /\ time_idx < encoded_lengths
    /\ LET now == Filter(kept_hyps, {hyp \in Range(kept_hyps) : hyp.last_frame = time_idx})
       IN  /\ hyps' = now
           /\ kept_hyps' = Filter(kept_hyps, {hyp \in Range(kept_hyps) : hyp.last_frame > time_idx})
           /\ IF now = <<>>
              THEN pc' = "frame" /\ time_idx' = time_idx + 1
              ELSE pc' = "while" /\ time_idx' = time_idx
    /\ created' = {}
    /\ UNCHANGED <<cfg, encoded_lengths, nbest, maesVars, otherVars>>

\* The longest token sequence that is expanded.  With a uniform joint and no
\* zero duration a hypothesis has at most one token per frame and the
\* sentinel, so nothing is cut.
TokenBound(c) ==
    IF c.joint.output = "uniform" THEN MaxT + 2
    ELSE IF c.joint.output = "sharp" THEN MaxTokens + 1
    ELSE MaxTokens

\* With a sharp joint the token sequences grow without bound in one frame.
\* There the model keeps the first MaxTokens + 1 tokens of a hypothesis (and
\* their timesteps) and drops what follows, so two hypotheses that differ
\* beyond that are one hypothesis in the model.
Saturate(c, hs) ==
    IF c.joint.output = "sharp"
    THEN [i \in 1..Len(hs) |->
            [hs[i] EXCEPT
                !.y_sequence = SubSeq(@, 1, Min(Len(@), MaxTokens + 1)),
                !.timestep = SubSeq(@, 1, Min(Len(@), MaxTokens + 1))]]
    ELSE hs

\* Line 445: the surviving set when the inner loop breaks.
KeptAfterBreak(c, kept_most_prob) == kept_most_prob

\* Lines 370-449: one iteration of the while loop.  The hypothesis of maximum
\* score is expanded with the outputs of the joint at this frame.
DefaultExpand ==
    /\ cfg.search_type = "default"
    /\ pc = "while"
    /\ hyps # <<>>
    /\ Len(hyps[MaxIdx(hyps)].y_sequence) <= TokenBound(cfg)
    /\ \E logp \in JointLogp(cfg), durations_logp \in JointDurationsLogp(cfg) :
       \E logp_topk_idxs \in TopK(logp, 0 .. (cfg.joint.classes - 2), beam_k(cfg)),
          durations_logp_topk_idxs \in
              TopK(durations_logp, DurationIdx(cfg), durations_beam_k(cfg)) :
       LET sums == sum_logp(cfg, logp, logp_topk_idxs, durations_logp,
                            durations_logp_topk_idxs)
       IN
       \E sum_logp_topk_idxs \in TopK(sums, DOMAIN sums, beam_k(cfg)) :
       LET max_hyp == hyps[MaxIdx(hyps)]
           rest == RemoveAt(hyps, MaxIdx(hyps))
           nonblank == NonBlankChildren(cfg, time_idx, max_hyp, logp, logp_topk_idxs,
                           durations_logp, durations_logp_topk_idxs, sum_logp_topk_idxs)
           blanks == BlankChildren(cfg, max_hyp, logp, durations_logp,
                                   durations_logp_topk_idxs)
           hyps1 == Saturate(cfg, rest \o Hyps(Filter(nonblank, {ch \in Range(nonblank) : ch.duration = 0})))
           kept1 == remove_duplicate_hypotheses(Saturate(cfg,
                        kept_hyps \o Hyps(Filter(nonblank, {ch \in Range(nonblank) : ch.duration # 0}))
                                  \o Hyps(blanks)))
           hyps_max == hyps1[MaxIdx(hyps1)].score
           most_prob == Filter(kept1, {hyp \in Range(kept1) : hyp.score > hyps_max})
           kept_most_prob == StableSort(most_prob, ScoreAsc(most_prob))
       IN  /\ created' = Created("nonblank", time_idx, max_hyp, nonblank,
                                    durations_logp_topk_idxs)
                            \cup Created("blank", time_idx, max_hyp, blanks,
                                          durations_logp_topk_idxs)
           /\ IF hyps1 # <<>>
              THEN IF Len(kept_most_prob) >= beam(cfg)
                   THEN /\ kept_hyps' = KeptAfterBreak(cfg, kept_most_prob)
                        /\ hyps' = hyps1
                        /\ pc' = "frame"
                        /\ time_idx' = time_idx + 1
                   ELSE /\ kept_hyps' = kept1
                        /\ hyps' = hyps1
                        /\ pc' = "while"
                        /\ time_idx' = time_idx
              ELSE /\ kept_hyps' = SubSeq(StableSort(kept1, ScoreDesc(kept1)), 1,
                                          Min(beam(cfg), Len(kept1)))
                   /\ hyps' = hyps1
                   /\ pc' = "frame"
                   /\ time_idx' = time_idx + 1
    /\ UNCHANGED <<cfg, encoded_lengths, nbest, maesVars, otherVars>>

\* Lines 495-515: the next frame of mAES: the split, the prefix search and the
\* snapshot of the token sequences of the frame.
MaesFrame ==
    /\ cfg.search_type = "maes"
    /\ pc = "frame"
    /\ time_idx < encoded_lengths
    /\ LET now == Filter(kept_hyps, {x \in Range(kept_hyps) : x.last_frame = time_idx})
           by_len == StableSort(now, LenDesc(now))
       IN  /\ kept_hyps' = Filter(kept_hyps, {x \in Range(kept_hyps) : x.last_frame > time_idx})
           /\ IF now = <<>>
              THEN /\ pc' = "frame"
                   /\ time_idx' = time_idx + 1
                   /\ hyps' = <<>>
                   /\ duplication_check' = {}
              ELSE /\ pc' = "round"
                   /\ time_idx' = time_idx
                   /\ IF cfg.zero_duration_idx # NoneIdx
                      THEN \E delta \in PrefixDeltas(by_len, cfg.maes_prefix_alpha) :
                              hyps' = prefix_search(by_len, delta, cfg.maes_prefix_alpha)
                      ELSE hyps' = now
                   /\ duplication_check' = {now[i].y_sequence : i \in 1..Len(now)}
    /\ n' = 0
    /\ list_b' = <<>>
    /\ list_nb' = <<>>
    /\ list_exp' = <<>>
    /\ last_round' = <<>>
    /\ created' = {}
    /\ UNCHANGED <<cfg, encoded_lengths, nbest, otherVars>>

\* Faulty variant: one round too many.
MoreStepsOffByOne(c, step) == step < c.maes_num_steps

\* Lines 517 and 598: round `step` of range(maes_num_steps) is not the last.
MoreSteps(c, step) == step < c.maes_num_steps - 1

\* Lines 517-621: one round of expansions of the hypotheses of the round.  The
\* hypotheses that enter the rounds of a frame have at most MaxTokens tokens;
\* with a uniform joint, where every hypothesis has every expansion, so have
\* those of the later rounds.
MaesRound ==
    /\ cfg.search_type = "maes"
    /\ pc = "round"
    /\ (n = 0 \/ cfg.joint.output = "uniform") =>
           \A i \in 1..Len(hyps) : Len(hyps[i].y_sequence) <= MaxTokens
    /\ \E k_expansions \in
            SeqProduct([i \in 1..Len(hyps) |-> ExpansionsOf(cfg, hyps[i])]) :
       LET all == Expansions(cfg, time_idx, hyps, k_expansions, duplication_check)
           Of(list) == Hyps(Filter(all, {x \in Range(all) : x.list = list}))
           list_b1 == list_b \o Of("b")
           list_nb1 == AppendDecOut(list_nb \o Of("nb"))
           list_exp1 == AppendDecOut(Of("exp"))
           expanded == {[kind |-> IF all[i].list = "b" THEN "blank" ELSE "nonblank",
                         frame |-> time_idx, source |-> all[i].source,
                         hyp |-> all[i].hyp, duration_idx |-> all[i].duration_idx,
                         selected |-> all[i].selected] : i \in 1..Len(all)}
       IN  /\ list_b' = list_b1
           /\ list_nb' = list_nb1
           /\ IF list_exp1 = <<>>
              THEN /\ kept_hyps' = TopBeam(cfg, kept_hyps \o list_b1 \o list_nb1)
                   /\ created' = expanded
                   /\ list_exp' = list_exp1
                   /\ last_round' = <<>>
                   /\ hyps' = <<>>
                   /\ n' = n
                   /\ pc' = "frame"
                   /\ time_idx' = time_idx + 1
              ELSE IF MoreSteps(cfg, n)
              THEN /\ hyps' = remove_duplicate_hypotheses(list_exp1)
                   /\ created' = expanded
                   /\ list_exp' = list_exp1
                   /\ last_round' = <<>>
                   /\ n' = n + 1
                   /\ pc' = "round"
                   /\ UNCHANGED <<kept_hyps, time_idx>>
              ELSE \E last \in
                        SeqProduct([i \in 1..Len(list_exp1) |->
                                       LastRound(cfg, list_exp1[i])]) :
                   /\ list_exp' = Hyps(last)
                   /\ last_round' = <<[kept_hyps |-> kept_hyps, list_exp |-> list_exp1,
                                        beam_logp |-> [i \in 1..Len(last) |-> last[i].logp],
                                        beam_duration_logp |->
                                            [i \in 1..Len(last) |-> last[i].duration_logp]]>>
                   /\ created' = expanded
                        \cup UNION {Created("last", time_idx, list_exp1[i], <<last[i]>>,
                                            last[i].selected) : i \in 1..Len(last)}
                   /\ kept_hyps' = TopBeam(cfg, kept_hyps \o list_b1 \o Hyps(last)
                                                    \o list_nb1)
                   /\ hyps' = <<>>
                   /\ n' = n
                   /\ pc' = "frame"
                   /\ time_idx' = time_idx + 1
    /\ UNCHANGED <<cfg, encoded_lengths, nbest, duplication_check, otherVars>>

\* Lines 450 and 632: the surviving set is returned through sort_nbest.
Return ==
    /\ pc = "frame"
    /\ time_idx >= encoded_lengths
    /\ nbest' = sort_nbest(cfg, kept_hyps)
    /\ pc' = "done"
    /\ hyps' = <<>>
    /\ list_b' = <<>>
    /\ list_nb' = <<>>
    /\ list_exp' = <<>>
    /\ last_round' = <<>>
    /\ duplication_check' = {}
    /\ created' = {}
    /\ UNCHANGED <<cfg, encoded_lengths, time_idx, kept_hyps, n, otherVars>>

Next == GreedySearch \/ DefaultFrame \/ DefaultExpand \/ MaesFrame \/ MaesRound \/ Return

Spec == Init /\ [][Next]_vars

\* --------------------------------------- remove_duplicate_hypotheses alone

InitDedup ==
    /\ dd_in \in DedupInputs
    /\ dd_out = <<>>
    /\ InitSearch(DefaultDecoder(2, 2, 2, <<1, 2>>), 0)
    /\ NoSelect
    /\ NoInit
    /\ NoPrefix

\* The list is given to remove_duplicate_hypotheses.
Dedup ==
    /\ dd_out = <<>>
    /\ dd_out' = <<remove_duplicate_hypotheses(dd_in)>>
    /\ UNCHANGED <<dd_in, searchVars, sel_in, sel_out, ps_in, ps_out, args, raised>>

\* Its result is given to remove_duplicate_hypotheses again.
DedupAgain ==
    /\ Len(dd_out) = 1
    /\ dd_out' = Append(dd_out, remove_duplicate_hypotheses(dd_out[1]))
    /\ UNCHANGED <<dd_in, searchVars, sel_in, sel_out, ps_in, ps_out, args, raised>>

NextDedup == Dedup \/ DedupAgain

SpecDedup == InitDedup /\ [][NextDedup]_vars

\* --------------------------------- default_beam_search with a uniform joint

\* Default decoders of beam size 2 whose joint outputs uniform logits, over
\* duration tables without a zero; the joint has vocab_size + 1 or vocab_size
\* token classes.
UniformDecoders ==
    {[DefaultDecoder(2, v, b, d) EXCEPT !.joint = JointModel(k, "uniform")] :
        v \in {1, 2}, b \in {0}, d \in {<<1>>, <<1, 2>>}, k \in {2, 3}}

InitUniform ==
    /\ \E c \in UniformDecoders, T \in 0..(MaxT + 1) :
           c.joint.classes \in {c.vocab_size, c.vocab_size + 1} /\ InitSearch(c, T)
    /\ NoDedup
    /\ NoSelect
    /\ NoInit
    /\ NoPrefix

NextUniform == DefaultFrame \/ DefaultExpand \/ Return

SpecUniform == InitUniform /\ [][NextUniform]_vars

\* ------------------------------------- default search with a sharp joint

\* A joint whose softmax is dominated by one non-blank token and one duration.
SharpDecoders ==
    {[DefaultDecoder(2, 2, 2, d) EXCEPT !.joint = JointModel(3, "sharp")] :
        d \in DurationTables}

InitSharp ==
    /\ \E c \in SharpDecoders, T \in 0..MaxT : InitSearch(c, T)
    /\ NoDedup
    /\ NoSelect
    /\ NoInit
    /\ NoPrefix

NextSharp == DefaultFrame \/ DefaultExpand \/ Return

\* Line 370: the while loop has another iteration to run.
ExpandEnabled ==
    /\ cfg.search_type = "default"
    /\ pc = "while"
    /\ hyps # <<>>
    /\ Len(hyps[MaxIdx(hyps)].y_sequence) <= TokenBound(cfg)

\* The interpreter goes on with the next step as long as there is one: weak
\* fairness of every action.  For DefaultExpand it is written out, with the
\* guard of the action as its enabling condition.
SpecSharp ==
    /\ InitSharp
    /\ [][NextSharp]_vars
    /\ WF_vars(DefaultFrame)
    /\ WF_vars(Return)
    /\ ([]<>(~ExpandEnabled) \/ []<><<DefaultExpand>>_vars)

\* ------------------------------------------------ mAES with a uniform joint

\* mAES decoders whose joint outputs uniform logits, over the duration tables
\* with a zero: every candidate of a hypothesis has the same score, so every
\* one of them is within gamma of the best.
MaesUniformDecoders ==
    {[MaesDecoder(2, 2, 2, d, 2, 1, 0, 0) EXCEPT !.joint = JointModel(3, "uniform")] :
        d \in {<<0, 1>>, <<1, 0>>}}

InitMaesUniform ==
    /\ \E c \in MaesUniformDecoders, T \in 0..MaxT : InitSearch(c, T)
    /\ NoDedup
    /\ NoSelect
    /\ NoInit
    /\ NoPrefix

NextMaes == MaesFrame \/ MaesRound \/ Return

SpecMaesUniform == InitMaesUniform /\ [][NextMaes]_vars

\* ------------------------------------------------------- sort_nbest alone

\* Hypotheses of 1 to MaxLen tokens and of scores -(MaxLogp + 1) .. -1: the
\* order by score and the order by score / length differ on them.
SortHyps ==
    {Hypothesis(score, SubSeq([i \in 1..MaxLen |-> i - 1], 1, l),
                SubSeq([i \in 1..MaxLen |-> i - 2], 1, l), 0, 0) :
        score \in (0 - (MaxLogp + 1)) .. (0 - 1), l \in 1..MaxLen}

\* The lists of l of them.
SortInputs(l) == [1..l -> SortHyps]

\* Instances of both searches, with and without score normalisation.
SortDecoders ==
    {[c EXCEPT !.score_norm = score_norm] :
        c \in {DefaultDecoder(2, 2, 2, <<1, 2>>), MaesDecoder(2, 2, 2, <<1, 2>>, 2, 1, 0, 1)},
        score_norm \in BOOLEAN}

\* The end of a search: the frames are over and kept_hyps is the final set.
InitSort ==
    /\ cfg \in SortDecoders
    /\ \E l \in 0..MaxLen : kept_hyps \in SortInputs(l)
    /\ encoded_lengths = 0
    /\ pc = "frame"
    /\ time_idx = 0
    /\ hyps = <<>>
    /\ n = 0
    /\ list_b = <<>>
    /\ list_nb = <<>>
    /\ list_exp = <<>>
    /\ last_round = <<>>
    /\ duplication_check = {}
    /\ created = {}
    /\ nbest = <<>>
    /\ NoDedup
    /\ NoSelect
    /\ NoInit
    /\ NoPrefix

SpecSort == InitSort /\ [][Return]_vars

\* ------------------------------------- select_k_expansions_durations alone

\* What the caller passes for one hypothesis (lines 522-529): the 2 best of 2
\* token classes and of 2 durations, of log-probabilities in LogpVals.
SelectRows ==
    UNION {UNION {
        {[logp |-> logp, topk_idxs |-> topk_idxs, duration_logp |-> duration_logp,
          topk_duration_idxs |-> topk_duration_idxs] :
            topk_idxs \in TopK(logp, {0, 1}, 2),
            topk_duration_idxs \in TopK(duration_logp, {0, 1}, 2)} :
        duration_logp \in [{0, 1} -> LogpVals]} : logp \in [{0, 1} -> LogpVals]}

\* Scenario S5 in tenths: five tokens of scores -10, -12, -14, -17, -20 with
\* one duration, gamma = 5.
SelectS5 ==
    [hyps |-> <<Hypothesis(0, <<0>>, <<0 - 1>>, 0, 1)>>,
     rows |-> <<[logp |-> <<0 - 17, 0 - 10, 0 - 20, 0 - 14, 0 - 12>>,
                 topk_idxs |-> <<2, 5, 4, 1, 3>>,
                 duration_logp |-> <<0>>,
                 topk_duration_idxs |-> <<1>>]>>,
     gamma |-> 5]

\* Calls with l hypotheses (of scores 0, -1, ...) and gamma in 0 .. MaxLogp.
SelectInputs(l) ==
    {[hyps |-> [i \in 1..l |-> Hypothesis(1 - i, <<0>>, <<0 - 1>>, 0, 1)],
      rows |-> rows, gamma |-> gamma] :
        rows \in [1..l -> SelectRows], gamma \in 0..MaxLogp}

InitSelect ==
    /\ \/ sel_in = SelectS5
       \/ \E l \in {1, 2} : sel_in \in SelectInputs(l)
    /\ sel_out = <<>>
    /\ cfg = MaesDecoder(2, 2, 2, <<1, 2>>, 2, 1, 0, 1)
    /\ encoded_lengths = 1
    /\ pc = "select"
    /\ time_idx = 0
    /\ hyps = sel_in.hyps
    /\ kept_hyps = <<>>
    /\ n = 0
    /\ list_b = <<>>
    /\ list_nb = <<>>
    /\ list_exp = <<>>
    /\ last_round = <<>>
    /\ duplication_check = {}
    /\ created = {}
    /\ nbest = <<>>
    /\ NoDedup
    /\ NoInit
    /\ NoPrefix

\* Line 529: the call.
Select ==
    /\ pc = "select"
    /\ sel_out' = <<SelectCall(sel_in)>>
    /\ pc' = "selected"
    /\ UNCHANGED <<cfg, encoded_lengths, time_idx, hyps, kept_hyps, nbest, created, maesVars,
                   dd_in, dd_out, sel_in, ps_in, ps_out, args, raised>>

SpecSelect == InitSelect /\ [][Select]_vars

\* ------------------------------------------------------------ __init__ alone

\* What stands for the instance when __init__ raised: there is none.
NoInstance == [search_type |-> "none"]

InitConstruct ==
    /\ args \in InitArgs
    /\ raised = "none"
    /\ cfg = NoInstance
    /\ encoded_lengths = 0
    /\ pc = "init"
    /\ time_idx = 0
    /\ hyps = <<>>
    /\ kept_hyps = <<>>
    /\ n = 0
    /\ list_b = <<>>
    /\ list_nb = <<>>
    /\ list_exp = <<>>
    /\ last_round = <<>>
    /\ duplication_check = {}
    /\ created = {}
    /\ nbest = <<>>
    /\ NoDedup
    /\ NoSelect
    /\ NoPrefix

\* Lines 155-250: BeamTDTInfer(...) either raises or leaves an instance.
Construct ==
    /\ pc = "init"
    /\ raised' = InitRaises(args)
    /\ IF InitRaises(args) = "none"
       THEN cfg' = Instance(args) /\ pc' = "constructed"
       ELSE cfg' = NoInstance /\ pc' = "raised"
    /\ UNCHANGED <<encoded_lengths, time_idx, hyps, kept_hyps, nbest, created, maesVars,
                   dd_in, dd_out, sel_in, sel_out, ps_in, ps_out, args>>

SpecInit == InitConstruct /\ [][Construct]_vars

\* ------------------------------------------------------------------ claims

\* The position in the input of the hypothesis kept for the key of dd_in[i]:
\* the first one of maximum score among those of the same key.
FirstBest(i) ==
    CHOOSE b \in 1..Len(dd_in) :
        /\ SameKey(dd_in[b], dd_in[i])
        /\ \A j \in 1..Len(dd_in) :
              SameKey(dd_in[j], dd_in[i]) =>
                  \/ dd_in[j].score < dd_in[b].score
                  \/ (dd_in[j].score = dd_in[b].score /\ b <= j)

C2_Idempotent == Len(dd_out) = 2 => dd_out[2] = dd_out[1]

\* C2 witness: a list from which duplicates were removed, with two hypotheses
\* left, has gone through the suppression twice.
C2_Witness ==
    /\ Len(dd_out) = 2
    /\ Len(dd_out[1]) = 2
    /\ Len(dd_in) = 3
    /\ dd_out[1][1].score = dd_out[1][2].score

\* Every hypothesis of the state: the sets and lists of the search, the
\* hypotheses the last step constructed and their sources, the returned list.
AllHyps ==
    Range(hyps) \cup Range(kept_hyps) \cup Range(list_b) \cup Range(list_nb)
        \cup Range(list_exp) \cup Range(nbest)
        \cup {r.hyp : r \in created} \cup {r.source : r \in created}

\* C3: every hypothesis has as many timesteps as tokens.
C3_TokensTimesteps ==
    \A h \in AllHyps : Len(h.y_sequence) = Len(h.timestep)

\* C3 witness: in mAES a frame has filled the blank list and the non-blank
\* list, and a hypothesis of three tokens is in the non-blank list.
C3_Witness ==
    /\ cfg.search_type = "maes"
    /\ list_b # <<>>
    /\ \E i \in 1..Len(list_nb) : Len(list_nb[i].y_sequence) = 3

\* C4: a hypothesis built while frame t is processed has a last_frame not
\* below that of its source, and a timestep appended then is at least t.
C4_Monotonic ==
    \A r \in created :
        /\ r.hyp.last_frame >= r.source.last_frame
        /\ r.kind = "nonblank" =>
              /\ Len(r.hyp.timestep) = Len(r.source.timestep) + 1
              /\ r.hyp.timestep[Len(r.hyp.timestep)] >= r.frame

\* C4 witness: at a frame after the first a token was appended with a
\* duration above zero.
C4_Witness ==
    \E r \in created :
        /\ r.kind = "nonblank"
        /\ r.frame >= 1
        /\ r.hyp.last_frame > r.source.last_frame

\* C5: last_frame is at least every timestep after the sentinel.
C5_LastFrameBounds ==
    \A h \in AllHyps :
        \A i \in 2..Len(h.timestep) : h.last_frame >= h.timestep[i]

\* C5 witness: a surviving hypothesis whose last token was emitted at a frame
\* after the first, with a zero-duration token before it.
C5_Witness ==
    \E i \in 1..Len(kept_hyps) :
        /\ Len(kept_hyps[i].timestep) = 3
        /\ kept_hyps[i].timestep[2] = kept_hyps[i].timestep[3]
        /\ kept_hyps[i].timestep[3] >= 1

\* The duration indices of the blank children of the last expansion.
BlankIdxs == {r.duration_idx : r \in {x \in created : x.kind = "blank"}}

\* C6: in default beam search a blank child is later than its parent; the
\* blank children are those of the non-zero durations of the duration top-k,
\* or the one of the minimum non-zero duration when the top-k is the zero
\* index alone.
C6_DefaultBlankDuration ==
    cfg.search_type = "default" =>
        \A r \in created :
            r.kind = "blank" =>
                /\ r.hyp.last_frame > r.source.last_frame
                /\ BlankIdxs =
                     IF r.selected = <<cfg.zero_duration_idx>>
                     THEN {cfg.min_non_zero_duration_idx}
                     ELSE Range(r.selected) \ {cfg.zero_duration_idx}

\* C6 witness: the duration top-k was the zero index alone, and a blank child
\* was made with the minimum non-zero duration.
C6_Witness ==
    /\ cfg.search_type = "default"
    /\ \E r \in created :
          /\ r.kind = "blank"
          /\ r.selected = <<cfg.zero_duration_idx>>
          /\ r.duration_idx = cfg.min_non_zero_duration_idx

\* C7 (as claimed): in mAES every hypothesis put in the blank list is later
\* than its source.
C7_MaesBlankDuration ==
    cfg.search_type = "maes" =>
        \A r \in created :
            r.kind = "blank" => r.hyp.last_frame > r.source.last_frame

\* C8 (as claimed): in default beam search the surviving set has at most
\* min(beam_size, vocab_size) hypotheses when the processing of a frame ends.
C8_DefaultFrontier ==
    (cfg.search_type = "default" /\ pc \in {"frame", "done"}) =>
        Len(kept_hyps) <= Min(cfg.beam_size, cfg.vocab_size)

\* C9: in mAES the surviving set has at most min(beam_size, vocab_size)
\* hypotheses when the processing of a frame ends.
C9_MaesFrontier ==
    (cfg.search_type = "maes" /\ pc \in {"frame", "done"}) =>
        Len(kept_hyps) <= Min(cfg.beam_size, cfg.vocab_size)

\* C9 witness: a frame ended with more candidates than the beam, and the
\* surviving set is full.
C9_Witness ==
    /\ cfg.search_type = "maes"
    /\ pc = "frame"
    /\ time_idx >= 1
    /\ Len(list_b) + Len(list_nb) + Len(list_exp) > Min(cfg.beam_size, cfg.vocab_size)
    /\ Len(kept_hyps) = Min(cfg.beam_size, cfg.vocab_size)

\* C10 (as claimed): every hypothesis starts with the blank at timestep -1 and
\* has no blank after it.
C10_Sentinel ==
    \A h \in AllHyps :
        /\ h.y_sequence[1] = cfg.blank
        /\ h.timestep[1] = 0 - 1
        /\ \A i \in 2..Len(h.y_sequence) : h.y_sequence[i] # cfg.blank

\* ---------------------------------------------------- claims on __init__

\* __init__ has returned or raised.
Constructed == pc \in {"constructed", "raised"}

\* No instance was produced: the call raised.
Failed == raised # "none" /\ cfg = NoInstance

\* The three conditions of the mAES arguments.
MaesArgsBad ==
    \/ args.maes_num_steps < 2
    \/ args.maes_prefix_alpha < 0
    \/ args.vocab_size < args.beam_size + args.maes_expansion_beta

MaesRaised ==
    {"ValueError: maes_prefix_alpha", "ValueError: expansion_beta", "ValueError: maes_num_steps"}

\* C11: with search_type = maes the construction fails (it raises and leaves
\* no instance) whenever maes_num_steps < 2, maes_prefix_alpha < 0 or
\* vocab_size < beam_size + maes_expansion_beta, and none of the three checks
\* raises when the three conditions are false.
C11_MaesArguments ==
    (Constructed /\ args.search_type = "maes") =>
        /\ MaesArgsBad => Failed
        /\ ~MaesArgsBad => raised \notin MaesRaised

C11_Witness ==
    /\ pc = "raised"
    /\ args.search_type = "maes"
    /\ args.beam_size > 1
    /\ ~args.preserve_alignments
    /\ args.maes_num_steps >= 2
    /\ args.maes_prefix_alpha >= 0
    /\ args.vocab_size < args.beam_size + args.maes_expansion_beta
    /\ raised = "ValueError: expansion_beta"

\* C12 (as stated): for every beam_size >= 1, the search types tsd, alsd and
\* nsc, and alignment preservation, make the construction raise and leave no
\* instance.
C12_Unsupported ==
    (Constructed /\ args.beam_size >= 1
        /\ (args.search_type \in {"tsd", "alsd", "nsc"} \/ args.preserve_alignments))
    => Failed

\* C13: the construction fails whenever a language model is given with a
\* search type other than maes, for every beam_size >= 1, and whenever
\* beam_size < 1.
C13_LanguageModelAndBeam ==
    Constructed =>
        /\ (args.ngram_lm_model /\ args.search_type # "maes" /\ args.beam_size >= 1) => Failed
        /\ args.beam_size < 1 => Failed

C13_Witness ==
    /\ pc = "raised"
    /\ args.ngram_lm_model
    /\ args.kenlm_available
    /\ args.search_type = "default"
    /\ args.beam_size = 1
    /\ raised = "ValueError: language model"

\* ------------------------------------------------- claims on the scenarios

\* C14 (as stated): in scenario S2 (default search, beam size 1, 2 frames,
\* durations [0, 1], blank 0) the decode call completes, and the best
\* hypothesis it returns has tokens [0, 1] and timesteps [-1, 1].
C14_ScenarioS2 ==
    (/\ cfg.search_type = "default"
     /\ cfg.beam_size = 1
     /\ cfg.blank = 0
     /\ cfg.durations = <<0, 1>>
     /\ encoded_lengths = 2)
    => /\ pc # "raised"
       /\ pc = "done" => /\ nbest # <<>>
                         /\ nbest[1].y_sequence = <<0, 1>>
                         /\ nbest[1].timestep = <<0 - 1, 1>>

\* C15 (as stated): in scenario S1 (default search, beam size 2, 3 frames,
\* a vocabulary of 2 with blank 0, durations [1], uniform logits) the list
\* returned holds exactly one hypothesis, with tokens [0], timesteps [-1] and
\* last_frame 3.
C15_ScenarioS1 ==
    (/\ cfg.search_type = "default"
     /\ cfg.beam_size = 2
     /\ cfg.vocab_size = 2
     /\ cfg.blank = 0
     /\ cfg.durations = <<1>>
     /\ cfg.joint.output = "uniform"
     /\ encoded_lengths = 3
     /\ pc = "done")
    => /\ Len(nbest) = 1
       /\ nbest[1].y_sequence = <<0>>
       /\ nbest[1].timestep = <<0 - 1>>
       /\ nbest[1].last_frame = 3

\* ------------------------------------------------------ claims on sort_nbest

\* a comes before b or ties with it in the order sort_nbest sorts by.
SortedBefore(a, b) ==
    IF cfg.score_norm
    THEN a.score * Len(b.y_sequence) >= b.score * Len(a.y_sequence)
    ELSE a.score >= b.score

Occurrences(s, h) == Cardinality({i \in 1..Len(s) : s[i] = h})

\* C16: the list a search returns is a permutation of its final set (nothing
\* dropped, nothing added), ordered by score / len(tokens) descending when
\* score normalisation is on and by score descending otherwise, so that the
\* first hypothesis returned has the maximum (normalised) score.
C16_SortNbest ==
    pc = "done" =>
        /\ Len(nbest) = Len(kept_hyps)
        /\ \A h \in Range(kept_hyps) \cup Range(nbest) :
               Occurrences(nbest, h) = Occurrences(kept_hyps, h)
        /\ \A i, j \in 1..Len(nbest) : i < j => SortedBefore(nbest[i], nbest[j])
        /\ \A h \in Range(kept_hyps) : SortedBefore(nbest[1], h)

C16_Witness ==
    /\ pc = "done"
    /\ cfg.search_type = "maes"
    /\ cfg.score_norm
    /\ Len(nbest) = 3
    /\ nbest # kept_hyps
    /\ nbest[1].score < nbest[2].score
    /\ nbest[2] = nbest[3]

\* -------------------------------- claims on select_k_expansions_durations

\* The (token, duration index) pairs of the product of the two top-k lists of
\* hypothesis i of the call, with their total scores.
Product(i) ==
    {[k |-> k, duration_idx |-> d,
      score |-> sel_in.hyps[i].score + sel_in.rows[i].logp[k] + sel_in.rows[i].duration_logp[d]] :
        k \in Range(sel_in.rows[i].topk_idxs), d \in Range(sel_in.rows[i].topk_duration_idxs)}

\* The maximum total score of the product.
MaxScore(i) == CHOOSE m \in {x.score : x \in Product(i)} : \A x \in Product(i) : x.score <= m

Within(i, gamma) == {x \in Product(i) : x.score >= MaxScore(i) - gamma}

Scores(s) == [p \in 1..Len(s) |-> s[p].score]

AboveRemaining ==
    {i \in 1..Len(kept_hyps) : kept_hyps[i].score > hyps[MaxIdx(hyps)].score}

\* C19 (as stated): after an expansion of the default search that leaves
\* current-frame hypotheses, the loop has stopped exactly when at least
\* B = min(beam_size, vocab_size) future hypotheses scored strictly above the
\* best remaining one, and the surviving set is then B of those hypotheses;
\* when the loop continues fewer than B future hypotheses score above it.
C19_EarlyTermination ==
    (cfg.search_type = "default" /\ created # {} /\ hyps # <<>>) =>
        /\ pc = "frame" => /\ Len(kept_hyps) = Min(cfg.beam_size, cfg.vocab_size)
                           /\ Cardinality(AboveRemaining) = Len(kept_hyps)
        /\ pc = "while" => Cardinality(AboveRemaining) < Min(cfg.beam_size, cfg.vocab_size)

\* An iteration of the while loop of the default search: the hypothesis it
\* expanded is the source of what it created.
ExpandStep == cfg.search_type = "default" /\ pc = "while" /\ created' # {}

\* h is the first of the hypotheses of maximum score of the list s.
FirstOfMaxScore(s, h) ==
    \E i \in 1..Len(s) :
        /\ s[i] = h
        /\ \A j \in 1..Len(s) : s[j].score <= h.score
        /\ \A j \in 1..(i - 1) : s[j].score < h.score

\* C20: in the default search the hypothesis expanded next is one of maximum
\* score among the current-frame hypotheses not yet expanded, the first
\* inserted on ties, and within a frame the scores of the hypotheses expanded
\* one after the other do not increase.
C20_ExpansionOrder ==
    [][ExpandStep =>
          \A r \in created' :
              /\ FirstOfMaxScore(hyps, r.source)
              /\ \A q \in created : r.source.score <= q.source.score]_vars

\* C20 witness: the hypothesis just expanded tied with a different one of the
\* frame, which is still to be expanded.
C20_Witness ==
    /\ cfg.search_type = "default"
    /\ pc = "while"
    /\ created # {}
    /\ \E r \in created : \E i \in 1..Len(hyps) :
           /\ hyps[i].score = r.source.score
           /\ hyps[i] # r.source
           /\ r.source.score < 0

\* ------------------------------------------------------ prefix_search alone

\* mAES instances of beam size 3, with and without a zero duration.
PrefixDecoders ==
    {MaesDecoder(3, 3, 3, d, 2, alpha, 0, 0) :
        d \in {<<0, 1>>, <<1, 2>>}, alpha \in {1, 2}}

\* Token sequences of a hypothesis: the blank sentinel and up to MaxTokens tokens.
RECURSIVE TokenSeqs(_, _)
TokenSeqs(blank, len) ==
    IF len = 0 THEN {<<blank>>}
    ELSE TokenSeqs(blank, len - 1)
            \cup {Append(y, k) : y \in {x \in TokenSeqs(blank, len - 1) : Len(x) = len},
                                 k \in 0..1}

\* The hypotheses of frame 1: l hypotheses of different token sequences, all
\* with last_frame 1 and tokens taken at frame 0, in the order of kept_hyps.
FrameHyps(c, l) ==
    {[i \in 1..l |->
        Hypothesis(scores[i], ys[i], <<0 - 1>> \o [q \in 1..(Len(ys[i]) - 1) |-> 0],
                   1, Len(ys[i]))] :
        ys \in {y \in [1..l -> TokenSeqs(c.blank, MaxTokens)] :
                    \A i, j \in 1..l : i # j => y[i] # y[j]},
        scores \in [1..l -> {0 - 3, 0 - 1}]}

InitPrefix ==
    /\ \E c \in PrefixDecoders :
          /\ cfg = c
          /\ \E l \in 1..c.beam_size : hyps \in FrameHyps(c, l)
    /\ encoded_lengths = 2
    /\ pc = "prefix"
    /\ time_idx = 1
    /\ kept_hyps = <<>>
    /\ n = 0
    /\ list_b = <<>>
    /\ list_nb = <<>>
    /\ list_exp = <<>>
    /\ last_round = <<>>
    /\ duplication_check = {}
    /\ created = {}
    /\ nbest = <<>>
    /\ NoDedup
    /\ NoSelect
    /\ NoInit
    /\ NoPrefix

\* Lines 510-511: the prefix search of a frame, on the hypotheses sorted from
\* the longest to the shortest, when the duration table has a zero.
PrefixSearch ==
    /\ pc = "prefix"
    /\ LET hypotheses == StableSort(hyps, LenDesc(hyps))
       IN  IF cfg.zero_duration_idx # NoneIdx
           THEN \E delta \in PrefixDeltas(hypotheses, cfg.maes_prefix_alpha) :
                   /\ ps_in' = [hypotheses |-> hypotheses, delta |-> delta,
                                prefix_alpha |-> cfg.maes_prefix_alpha]
                   /\ ps_out' = <<prefix_search(hypotheses, delta, cfg.maes_prefix_alpha)>>
                   /\ hyps' = prefix_search(hypotheses, delta, cfg.maes_prefix_alpha)
           ELSE UNCHANGED <<ps_in, ps_out, hyps>>
    /\ pc' = "prefixed"
    /\ UNCHANGED <<cfg, encoded_lengths, time_idx, kept_hyps, nbest, created, maesVars,
                   dd_in, dd_out, sel_in, sel_out, args, raised>>

SpecPrefix == InitPrefix /\ [][PrefixSearch]_vars

\* ----------------------------------------------- claims on the rounds of mAES

\* The hypothesis of an expansion as it stands in a list after the round:
\* one predictor output was appended to it.
Routed(r) == [r.hyp EXCEPT !.dec_out = @ + 1]

\* C21 (as stated): in a round of mAES a non-blank expansion is put in the
\* expansion list if and only if its duration is 0 and its token sequence
\* (the tokens of the source and the new token) is not the token sequence of
\* a hypothesis that was active at the start of the frame; every other
\* non-blank expansion is put in the non-blank list.
C21_Routing ==
    (cfg.search_type = "maes" /\ pc = "round" /\ created # {}) =>
        \A r \in created :
            r.kind = "nonblank" =>
                LET to_exp == /\ Duration(cfg, r.duration_idx) = 0
                              /\ r.hyp.y_sequence \notin duplication_check
                IN  /\ to_exp <=> \E i \in 1..Len(list_exp) : list_exp[i] = Routed(r)
                    /\ ~to_exp => \E i \in 1..Len(list_nb) : list_nb[i] = Routed(r)


\* The largest value of a vector of log-probabilities.
LargestOf(v) == v[CHOOSE a \in ArgMax(v) : TRUE]

\* C22 (as stated): after a last round with a non-empty expansion list, every
\* hypothesis of the list has gained the blank log-probability plus the largest
\* duration log-probability of its own distribution, its last_frame has advanced
\* by the duration of the argmax (the minimum non-zero duration when the argmax
\* is the zero index), and the surviving set is the top beam of the
\* de-duplicated union of the previous survivors, the blank bucket, the
\* expansion list and the non-blank bucket.
C22_LastRound ==
    (cfg.search_type = "maes" /\ pc = "frame" /\ last_round # <<>>) =>
        LET given == last_round[1]
        IN  /\ \A i \in 1..Len(given.list_exp) :
                   LET source == given.list_exp[i]
                       duration_logp == given.beam_duration_logp[i]
                   IN  /\ list_exp[i].score =
                              source.score + given.beam_logp[i][cfg.blank]
                                           + LargestOf(duration_logp)
                       /\ \E a \in ArgMax(duration_logp) :
                              list_exp[i].last_frame =
                                  source.last_frame
                                  + Duration(cfg, IF a = cfg.zero_duration_idx
                                                  THEN cfg.min_non_zero_duration_idx
                                                  ELSE a)
            /\ kept_hyps = TopBeam(cfg, given.kept_hyps \o list_b \o list_exp \o list_nb)


Parallel(hyp) == hyp.dec_out = Len(hyp.y_sequence)

\* C23 (as stated): in mAES the predictor outputs of a hypothesis are parallel
\* to its tokens: every hypothesis of the surviving set after a frame, and every
\* hypothesis handed to the prefix search, has as many predictor outputs as
\* tokens; a blank expansion has as many as its source, and a non-blank
\* expansion, once in its list, one more than its source, whatever the number
\* of rounds run in the frame.
C23_PredictorOutputs ==
    cfg.search_type = "maes" =>
        /\ pc \in {"frame", "done"} => \A i \in 1..Len(kept_hyps) : Parallel(kept_hyps[i])
        /\ (pc = "round" /\ n = 0) => \A i \in 1..Len(hyps) : Parallel(hyps[i])
        /\ \A r \in created :
               /\ r.kind = "blank" => r.hyp.dec_out = r.source.dec_out
               /\ r.kind = "nonblank" =>
                      \A i \in 1..Len(list_nb \o list_exp) :
                          LET hyp == (list_nb \o list_exp)[i]
                          IN  (hyp.y_sequence = r.hyp.y_sequence
                                   /\ hyp.timestep = r.hyp.timestep)
                                  => hyp.dec_out = r.source.dec_out + 1
        /\ \A i \in 1..Len(list_nb) : Parallel(list_nb[i])


\* The hypotheses the search holds.
Held == Range(hyps) \cup Range(kept_hyps) \cup Range(list_b) \cup Range(list_nb)
            \cup Range(list_exp) \cup Range(nbest)

\* Number of entries of the timesteps of hyp equal to frame f.
EntriesAt(hyp, f) == Cardinality({i \in 1..Len(hyp.timestep) : hyp.timestep[i] = f})

\* C24: in mAES no hypothesis ever has more than maes_num_steps entries of its
\* timesteps equal to the same frame index.
C24_TimestepsPerFrame ==
    cfg.search_type = "maes" =>
        \A hyp \in Held : \A f \in 0..MaxT : EntriesAt(hyp, f) <= cfg.maes_num_steps

\* A surviving hypothesis that took a token in every round of frame 0.
C24_Witness ==
    /\ cfg.search_type = "maes"
    /\ pc = "frame"
    /\ \E i \in 1..Len(kept_hyps) : EntriesAt(kept_hyps[i], 0) = cfg.maes_num_steps


\* C25 (as stated): in every round of every frame of mAES the number of
\* hypotheses being expanded is at most beam_size + maes_expansion_beta.
C25_RoundWidth ==
    (cfg.search_type = "maes" /\ pc = "round") =>
        Len(hyps) <= cfg.beam_size + cfg.maes_expansion_beta


\* ------------------------------------------------- claims on prefix_search

StrictPrefix(pref, x) == Len(pref) < Len(x) /\ SubSeq(x, 1, Len(pref)) = pref

\* C26: the prefix search of a frame changes nothing but scores: it returns the
\* hypotheses it was given, in the same order, with tokens, timesteps and
\* last_frame unchanged; a score changes only if a hypothesis later in the list
\* is a strict prefix with a length gap of at most prefix_alpha, so the last
\* hypothesis never changes; a changed score is never lower than before; and
\* with a duration table without 0 the search is not applied and the
\* hypotheses of the frame are unchanged.
C26_PrefixEffect ==
    [][(pc = "prefix" /\ pc' = "prefixed") =>
        IF 0 \notin Range(cfg.durations)
        THEN hyps' = hyps /\ ps_out' = <<>>
        ELSE LET given == ps_in'.hypotheses
                 out == ps_out'[1]
             IN  /\ hyps' = out
                 /\ Len(out) = Len(given)
                 /\ \A i \in 1..Len(given) :
                        /\ out[i] = [given[i] EXCEPT !.score = out[i].score]
                        /\ out[i].score >= given[i].score
                        /\ out[i].score # given[i].score =>
                               \E j \in (i + 1)..Len(given) :
                                   /\ StrictPrefix(given[j].y_sequence, given[i].y_sequence)
                                   /\ Len(given[i].y_sequence) - Len(given[j].y_sequence)
                                        <= ps_in'.prefix_alpha
                 /\ out[Len(out)].score = given[Len(given)].score]_vars

\* A list of three where the score of one hypothesis rose and the score of
\* another, which is not the last, stayed.
C26_Witness ==
    /\ pc = "prefixed"
    /\ ps_out # <<>>
    /\ Len(ps_out[1]) = 3
    /\ \E i, j \in 1..2 :
          /\ ps_out[1][i].score > ps_in.hypotheses[i].score
          /\ ps_out[1][j].score = ps_in.hypotheses[j].score


\* ---------------------------------------------- claims on whole decode calls

\* C27 (as stated): the inner loop of every frame of the default search
\* eventually exits, whatever the joint gives, so the decode call eventually
\* returns.
C27_Termination == <>(pc = "done")


\* C28: in the default search, after frame t every hypothesis of the surviving
\* set has last_frame > t, so the partition of frame t + 1 takes it as active
\* or keeps it for a later frame, and after T >= 1 frames every hypothesis
\* returned has last_frame >= T.
C28_DefaultPartition ==
    cfg.search_type = "default" =>
        /\ pc = "frame" => \A i \in 1..Len(kept_hyps) : kept_hyps[i].last_frame >= time_idx
        /\ (pc = "done" /\ encoded_lengths >= 1) =>
               \A i \in 1..Len(nbest) : nbest[i].last_frame >= encoded_lengths

\* After a frame, one survivor is active at the next frame and another is
\* kept for a later one.
C28_Witness ==
    /\ cfg.search_type = "default"
    /\ pc = "frame"
    /\ time_idx >= 1
    /\ \E i, j \in 1..Len(kept_hyps) :
          /\ kept_hyps[i].last_frame = time_idx
          /\ kept_hyps[j].last_frame > time_idx


\* C29 (as stated): in mAES, after frame t every hypothesis of the surviving
\* set has last_frame > t, so the partition of frame t + 1 discards no
\* survivor, and after T >= 1 frames every hypothesis returned has
\* last_frame >= T.
C29_MaesPartition ==
    cfg.search_type = "maes" =>
        /\ pc = "frame" => \A i \in 1..Len(kept_hyps) : kept_hyps[i].last_frame >= time_idx
        /\ (pc = "done" /\ encoded_lengths >= 1) =>
               \A i \in 1..Len(nbest) : nbest[i].last_frame >= encoded_lengths

\* C30 (as stated): the surviving set of the default search and of mAES is
\* non-empty after every frame, and the list returned is never empty.
C30_NeverEmpty ==
    cfg.search_type \in {"default", "maes"} =>
        /\ pc = "frame" => kept_hyps # <<>>
        /\ pc = "done" => nbest # <<>>

====
